---- MODULE Spec2Model ----
(***************************************************************************)
(* Model of analyze_df (src/statistical_analysis.py).                      *)
(*                                                                         *)
(* The caller's table df is a sequence of rows; a row is a function from   *)
(* column names to values, so adding and dropping columns is visible.      *)
(* Real numbers are exact fractions <<num, den>> with den > 0, reduced;    *)
(* NaN is <<0, 0>>.  std_difference_count holds the SQUARE of the sample   *)
(* standard deviation (the sample variance): the square root is injective  *)
(* on the non-negative reals, so equality and missingness are preserved.   *)
(*                                                                         *)
(* The library calls made by analyze_df are modelled by their documented   *)
(* behaviour at the call site:                                             *)
(*  - IsolationForest(contamination=c, random_state=42).fit_predict:       *)
(*    rejects c outside (0, 0.5]; rejects an empty table; a NaN feature is *)
(*    rejected or scored depending on the installed library version;       *)
(*    score_samples is an unknown but, for the fixed seed, deterministic   *)
(*    function of the feature matrix that gives equal rows equal scores;   *)
(*    offset_ = percentile(score_samples, 100*c) with linear               *)
(*    interpolation; a row is labelled -1 iff score_samples - offset_ < 0. *)
(*  - MinMaxScaler: (x - min) / (max - min), a zero range is scaled by 1.  *)
(***************************************************************************)
EXTENDS Integers, Sequences, FiniteSets, TLC

\* ---------------------------------------------------------------- bounds
MaxRows == 4

Devices == {"a", "b", "c"}
Scans == {1, 2}
ReportedCounts == {1, 2}
ScoreLevels == {-3, -2, -1}

\* anomaly_percentage values offered by the caller: 0 and 1 (outside (0,1)),
\* the default 0.15, 0.5, and 0.7 (inside (0,1), outside the library's (0, 0.5]).
Contaminations == {<<0, 20>>, <<3, 20>>, <<10, 20>>, <<14, 20>>, <<20, 20>>}

\* ------------------------------------------------------------- fractions
NaN == <<0, 0>>

IsNaN(q) == q[2] = 0

Abs(x) == IF x < 0 THEN -x ELSE x

RECURSIVE GCD(_, _)
GCD(x, y) == IF y = 0 THEN x ELSE GCD(y, x % y)

Frac(n, d) ==
    LET g == GCD(Abs(n), Abs(d))
        s == IF d < 0 THEN -1 ELSE 1
    IN  IF d = 0 THEN NaN ELSE <<(s * n) \div g, (s * d) \div g>>

FracLess(p, q) == p[1] * q[2] < q[1] * p[2]

FracLeq(p, q) == p[1] * q[2] <= q[1] * p[2]

FracSub(p, q) == Frac(p[1] * q[2] - q[1] * p[2], p[2] * q[2])

FracNeg(p) == <<-p[1], p[2]>>

\* ------------------------------------------------------------ dataframes
Range(s) == {s[i] : i \in 1..Len(s)}

RECURSIVE SumSeq(_)
SumSeq(s) == IF s = <<>> THEN 0 ELSE Head(s) + SumSeq(Tail(s))

DropColumns(rows, cols) ==
    [i \in 1..Len(rows) |-> [c \in (DOMAIN rows[i]) \ cols |-> rows[i][c]]]

RECURSIVE DropDuplicates(_)
DropDuplicates(rows) ==
    IF rows = <<>> THEN <<>>
    ELSE LET init == DropDuplicates(SubSeq(rows, 1, Len(rows) - 1))
             last == rows[Len(rows)]
         IN  IF last \in Range(init) THEN init ELSE Append(init, last)

\* df[col] = vals
WithColumn(rows, col, vals) ==
    [i \in 1..Len(rows) |->
        [c \in (DOMAIN rows[i]) \cup {col} |-> IF c = col THEN vals[i] ELSE rows[i][c]]]

Column(rows, col) == [i \in 1..Len(rows) |-> rows[i][col]]

\* groupby(['device','scan'])['procName'].transform('count')
GroupCount(rows, i) ==
    Cardinality({j \in 1..Len(rows) :
        /\ rows[j]["device"] = rows[i]["device"]
        /\ rows[j]["scan"] = rows[i]["scan"]})

DeviceValues(rows, d, col) ==
    LET IsDev(r) == r["device"] = d
    IN  Column(SelectSeq(rows, IsDev), col)

\* groupby('device')[col].transform('mean')
Mean(xs) == Frac(SumSeq(xs), Len(xs))

\* groupby('device')[col].transform('std'), squared: sample variance, n - 1
Std(xs) ==
    LET n == Len(xs)
        sq == [i \in 1..n |-> xs[i] * xs[i]]
    IN  IF n < 2 THEN NaN
        ELSE Frac(n * SumSeq(sq) - SumSeq(xs) * SumSeq(xs), n * (n - 1))


\* ----------------------------------------------------- caller's input
DeviceRank == [d \in Devices |-> CASE d = "a" -> 1 [] d = "b" -> 2 [] OTHER -> 3]

ScanRecord(i, d, s, n) ==
    [c \in {"Unnamed: 0", "device", "scan", "procName", "scan_proc_count", "timestamp"} |->
        CASE c = "Unnamed: 0" -> i
          [] c = "device" -> d
          [] c = "scan" -> s
          [] c = "procName" -> "p"
          [] c = "scan_proc_count" -> n
          [] OTHER -> 0]

InputColumns == {"Unnamed: 0", "device", "scan", "procName", "scan_proc_count", "timestamp"}

RowKey(t) == 2 * DeviceRank[t[1]] + t[2]

\* Tables of at most MaxRows scan records, listed device by device and scan
\* by scan, the reported counts of one scan in any order.  Device and scan
\* identifiers are opaque labels: they are named in order of first appearance
\* ("b" only after "a", a device's scan 2 only after its scan 1).
InputTables ==
    LET Triples == Devices \X Scans \X ReportedCounts
        Ordered(q) == \A i \in 1..(Len(q) - 1) : RowKey(q[i]) <= RowKey(q[i + 1])
        Named(q) ==
            \A i \in 1..Len(q) :
                /\ \A d \in Devices : DeviceRank[d] < DeviceRank[q[i][1]]
                        => \E j \in 1..i : q[j][1] = d
                /\ \A s \in Scans : s < q[i][2]
                        => \E j \in 1..i : q[j][1] = q[i][1] /\ q[j][2] = s
        Raw == UNION {[1..n -> Triples] : n \in 0..MaxRows}
    IN  {[i \in 1..Len(q) |-> ScanRecord(i - 1, q[i][1], q[i][2], q[i][3])] :
            q \in {r \in Raw : Ordered(r) /\ Named(r)}}

\* ------------------------------------------------------------- pipeline
\* mutant: the difference overwrites the reported count of the caller's table
Preprocess_OverwritesCount(rows) ==
    LET total == [i \in 1..Len(rows) |-> GroupCount(rows, i)]
        t == WithColumn(rows, "total_proc_count", total)
        diff == [i \in 1..Len(rows) |-> t[i]["total_proc_count"] - t[i]["scan_proc_count"]]
    IN  WithColumn(WithColumn(t, "difference_count", diff), "scan_proc_count", diff)

\* lines 31-32
Preprocess(rows) ==
    LET total == [i \in 1..Len(rows) |-> GroupCount(rows, i)]
        t == WithColumn(rows, "total_proc_count", total)
        diff == [i \in 1..Len(rows) |-> t[i]["total_proc_count"] - t[i]["scan_proc_count"]]
    IN  WithColumn(t, "difference_count", diff)

\* line 36
DataNoProc(rows) ==
    DropDuplicates(DropColumns(rows,
        {"Unnamed: 0", "procName", "scan_proc_count", "timestamp", "total_proc_count"}))

\* lines 38-39
Aggregate(rows) ==
    LET mean == [i \in 1..Len(rows) |->
                    Mean(DeviceValues(rows, rows[i]["device"], "difference_count"))]
        std == [i \in 1..Len(rows) |->
                    Std(DeviceValues(rows, rows[i]["device"], "difference_count"))]
    IN  WithColumn(WithColumn(rows, "mean_difference_count", mean),
                   "std_difference_count", std)

\* mutant: difference_count is left in the table before de-duplicating
FilteredDf_OnlyScanDropped(rows) == DropDuplicates(DropColumns(rows, {"scan"}))

\* line 107
FilteredDf(rows) == DropDuplicates(DropColumns(rows, {"scan", "difference_count"}))

\* line 108
Features(rows) ==
    [i \in 1..Len(rows) |-> <<rows[i]["mean_difference_count"], rows[i]["std_difference_count"]>>]

\* line 44: sorted(data_no_proc['device'].unique())
SortedDevices(rows) ==
    LET ds == {rows[i]["device"] : i \in 1..Len(rows)}
        pos(d) == Cardinality({e \in ds : DeviceRank[e] <= DeviceRank[d]})
    IN  [k \in 1..Cardinality(ds) |-> CHOOSE d \in ds : pos(d) = k]

\* ------------------------------------------------------------- detector
\* fit: the contamination parameter must lie in (0, 0.5]
ValidContamination(c) == 0 < c[1] /\ 2 * c[1] <= c[2]

\* mutant: an invalid anomaly_percentage is replaced by the default 0.15
Contamination_DefaultFallback(ap) == IF ValidContamination(ap) THEN ap ELSE <<3, 20>>

\* line 109: IsolationForest(contamination=anomaly_percentage, ...)
Contamination(ap) == ap

HasNaN(feats) == \E i \in 1..Len(feats) : IsNaN(feats[i][1]) \/ IsNaN(feats[i][2])

\* the score tables a fitted forest can give: equal rows get equal scores.
\* A score is recorded by its rank among the scores of the table, -1 for the
\* highest (least anomalous) score present, -2 for the next one, and so on.
ScoreTables(feats) ==
    {t \in [1..Len(feats) -> ScoreLevels] :
        /\ \A i, j \in 1..Len(feats) : feats[i] = feats[j] => t[i] = t[j]
        /\ \A i \in 1..Len(feats) : \A l \in ScoreLevels :
                l > t[i] => \E j \in 1..Len(feats) : t[j] = l}

\* k-th smallest score, k counted from 0
KthSmallest(scores, k) ==
    CHOOSE v \in Range(scores) :
        /\ Cardinality({i \in 1..Len(scores) : scores[i] < v}) <= k
        /\ Cardinality({i \in 1..Len(scores) : scores[i] <= v}) > k

\* offset_ = np.percentile(score_samples, 100 * contamination)
Percentile(scores, c) ==
    LET n == Len(scores)
        pos == c[1] * (n - 1)
        lo == pos \div c[2]
        r == pos % c[2]
        hi == IF lo + 1 <= n - 1 THEN lo + 1 ELSE n - 1
        slo == KthSmallest(scores, lo)
        shi == KthSmallest(scores, hi)
    IN  Frac(slo * c[2] + r * (shi - slo), c[2])

\* decision_function = score_samples - offset_
DecisionValue(score, offset) == FracSub(<<score, 1>>, offset)

\* predict: -1 where decision_function < 0, else 1
Predict(score, offset) == IF FracLess(DecisionValue(score, offset), <<0, 1>>) THEN -1 ELSE 1

\* ----------------------------------------------------------- normalizer
FracMin(qs) == CHOOSE m \in Range(qs) : \A q \in Range(qs) : FracLeq(m, q)

FracMax(qs) == CHOOSE m \in Range(qs) : \A q \in Range(qs) : FracLeq(q, m)

\* mutant: the scores are scaled without the negation
ScalerInput_NotNegated(scores) == scores

\* line 116: the scaler is given the negated anomaly scores
ScalerInput(scores) == [i \in 1..Len(scores) |-> FracNeg(scores[i])]

\* MinMaxScaler().fit_transform
Scale(range) == IF range[1] = 0 THEN <<1, 1>> ELSE <<range[2], range[1]>>

Scaled(x, lo, scale) ==
    LET d == FracSub(x, lo)
    IN  Frac(d[1] * scale[1], d[2] * scale[2])

MinMaxScale(xs) ==
    LET lo == FracMin(xs)
        scale == Scale(FracSub(FracMax(xs), lo))
    IN  [i \in 1..Len(xs) |-> Scaled(xs[i], lo, scale)]

\* line 126
AnomalousDevices(rows) ==
    {rows[i]["device"] : i \in {j \in 1..Len(rows) : rows[j]["anomaly"] = -1}}

\* mutant: the except clause lets the exception go on
RupturesExcept_Reraise == "raise"

\* lines 82-85: what the except clause around change-point detection does
RupturesExcept == "continue"

\* ---------------------------------------------------------------- state
VARIABLES
    input,               \* the scan records as the caller loaded them
    df,                  \* the caller's table object, as passed to analyze_df
    create_plots,        \* argument of the current call
    anomaly_percentage,  \* argument of the calls
    seeded,              \* what fitting did so far: {<<seed, features, scores>>}
    pc,                  \* line of analyze_df about to run, or "done"
    invocation,          \* "first" or "second" call of analyze_df on df
    steps,               \* stages the current call has carried out
    output_dir,          \* whether the output directory exists
    plot_queue,          \* devices the plotting loop has yet to visit
    data_no_proc,
    filtered_df,
    features,
    iso_forest,          \* <<>> or <<[contamination, offset]>>
    outcome,             \* "running", "returned" or "raised"
    error,               \* exception that ended the call, "" if none
    anomalous_devices,   \* the returned set
    history              \* one record per finished call

vars == <<input, df, create_plots, anomaly_percentage, seeded, pc, invocation, steps,
          output_dir, plot_queue, data_no_proc, filtered_df, features, iso_forest,
          outcome, error, anomalous_devices, history>>

config == <<input, anomaly_percentage>>

\* mutant: no fixed seed, every call grows its forest from another one
RandomState_Unseeded == IF invocation = "first" THEN 42 ELSE 43

\* line 109: random_state=42
RandomState == 42

plotting == <<output_dir, plot_queue>>

locals == <<data_no_proc, filtered_df, features, iso_forest>>

ending == <<outcome, error, anomalous_devices, history>>

Init ==
    /\ input \in InputTables
    /\ df = input
    /\ create_plots \in BOOLEAN
    /\ anomaly_percentage \in Contaminations
    /\ seeded = {}
    /\ pc = "L26"
    /\ invocation = "first"
    /\ steps = {}
    /\ output_dir = FALSE
    /\ plot_queue = <<>>
    /\ data_no_proc = <<>>
    /\ filtered_df = <<>>
    /\ features = <<>>
    /\ iso_forest = <<>>
    /\ outcome = "running"
    /\ error = ""
    /\ anomalous_devices = {}
    /\ history = <<>>

CallRecord(out, err, res) ==
    [create_plots |-> create_plots, outcome |-> out, error |-> err, result |-> res,
     scored |-> filtered_df]

\* an exception leaves analyze_df: nothing is returned
Raise(err) ==
    /\ pc' = "done"
    /\ outcome' = "raised"
    /\ error' = err
    /\ anomalous_devices' = {}
    /\ history' = Append(history, CallRecord("raised", err, {}))

\* lines 26-27
MakeDirs ==
    /\ pc = "L26"
    /\ create_plots
    /\ output_dir' = TRUE
    /\ steps' = steps \cup {"makedirs"}
    /\ pc' = "L31"
    /\ UNCHANGED <<config, df, create_plots, seeded, invocation, plot_queue, locals, ending>>

\* line 27: os.makedirs raises OSError
MakeDirsFails ==
    /\ pc = "L26"
    /\ create_plots
    /\ ~output_dir
    /\ Raise("OSError")
    /\ UNCHANGED <<config, df, create_plots, seeded, invocation, steps, plotting, locals>>

\* line 26, create_plots false
NoMakeDirs ==
    /\ pc = "L26"
    /\ ~create_plots
    /\ pc' = "L31"
    /\ UNCHANGED <<config, df, create_plots, seeded, invocation, steps, plotting, locals, ending>>

\* lines 31-32: two columns are assigned on the caller's table
Preprocessing ==
    /\ pc = "L31"
    /\ df' = Preprocess(df)
    /\ steps' = steps \cup {"preprocess"}
    /\ pc' = "L36"
    /\ UNCHANGED <<config, create_plots, seeded, invocation, plotting, locals, ending>>

\* lines 36-39
Aggregation ==
    /\ pc = "L36"
    /\ data_no_proc' = Aggregate(DataNoProc(df))
    /\ steps' = steps \cup {"aggregate"}
    /\ plot_queue' = IF create_plots THEN SortedDevices(data_no_proc') ELSE <<>>
    /\ pc' = IF create_plots THEN "L44" ELSE "L107"
    /\ UNCHANGED <<config, df, create_plots, seeded, invocation, output_dir, filtered_df,
                   features, iso_forest, ending>>

\* lines 45-104, one device plotted and its image saved
PlotDevice ==
    /\ pc = "L44"
    /\ plot_queue # <<>>
    /\ plot_queue' = Tail(plot_queue)
    /\ UNCHANGED <<config, df, create_plots, seeded, pc, invocation, steps, output_dir, locals,
                   ending>>

\* lines 69-85: rpt.Pelt(...).fit / predict raises inside the try
PlotRupturesFails ==
    /\ pc = "L44"
    /\ plot_queue # <<>>
    /\ IF RupturesExcept = "continue"
       THEN /\ plot_queue' = Tail(plot_queue)
            /\ steps' = steps \cup {"except"}
            /\ UNCHANGED <<pc, ending>>
       ELSE /\ Raise("RupturesError")
            /\ UNCHANGED <<plot_queue, steps>>
    /\ UNCHANGED <<config, df, create_plots, seeded, invocation, output_dir, locals>>

\* lines 58-64, 88-103: drawing or plt.savefig raises outside the try
PlotFails ==
    /\ pc = "L44"
    /\ plot_queue # <<>>
    /\ Raise("PlotError")
    /\ UNCHANGED <<config, df, create_plots, seeded, invocation, steps, plotting, locals>>

\* line 44: the loop is exhausted
PlotsDone ==
    /\ pc = "L44"
    /\ plot_queue = <<>>
    /\ pc' = "L107"
    /\ UNCHANGED <<config, df, create_plots, seeded, invocation, steps, plotting, locals, ending>>

\* lines 107-108
Featurize ==
    /\ pc = "L107"
    /\ filtered_df' = FilteredDf(data_no_proc)
    /\ features' = Features(filtered_df')
    /\ steps' = steps \cup {"featurize"}
    /\ pc' = "L109"
    /\ UNCHANGED <<config, df, create_plots, seeded, invocation, plotting, data_no_proc,
                   iso_forest, ending>>

\* why fit refuses ("" if it does not); a NaN feature is refused by the
\* library versions that do not score missing values (nan_ok false)
FitError(c, feats, nan_ok) ==
    IF ~ValidContamination(c) THEN "InvalidParameterError"
    ELSE IF Len(feats) = 0 \/ (HasNaN(feats) /\ ~nan_ok) THEN "ValueError"
    ELSE ""

\* lines 109-110, fit_predict raises
FitRaises ==
    /\ pc = "L109"
    /\ \E nan_ok \in BOOLEAN :
        /\ FitError(Contamination(anomaly_percentage), features, nan_ok) # ""
        /\ Raise(FitError(Contamination(anomaly_percentage), features, nan_ok))
    /\ iso_forest' = <<[contamination |-> Contamination(anomaly_percentage), offset |-> NaN]>>
    /\ UNCHANGED <<config, df, create_plots, seeded, invocation, steps, plotting, data_no_proc,
                   filtered_df, features>>

\* lines 110-111: the anomaly and anomaly_score columns
Scored(rows, t, off) ==
    WithColumn(WithColumn(rows, "anomaly", [i \in 1..Len(rows) |-> Predict(t[i], off)]),
               "anomaly_score", [i \in 1..Len(rows) |-> DecisionValue(t[i], off)])

\* lines 115-116: the score_normalized column
Normalized(rows) ==
    WithColumn(rows, "score_normalized",
               MinMaxScale(ScalerInput(Column(rows, "anomaly_score"))))

\* lines 109-116, fit_predict succeeds: the forest grown from seed 42 on these
\* features scores every row, the labels follow from the offset, then
\* decision_function (line 111) and the scaler (lines 115-116) add their columns
FitPredict ==
    /\ pc = "L109"
    /\ \E nan_ok \in BOOLEAN :
        FitError(Contamination(anomaly_percentage), features, nan_ok) = ""
    /\ \E t \in ScoreTables(features) :
        /\ \A m \in seeded : (m[1] = RandomState /\ m[2] = features) => m[3] = t
        /\ seeded' = seeded \cup {<<RandomState, features, t>>}
        /\ \E off \in {Percentile(t, Contamination(anomaly_percentage))} :
           \E scored \in {Scored(filtered_df, t, off)} :
            /\ iso_forest' = <<[contamination |-> Contamination(anomaly_percentage),
                                offset |-> off]>>
            /\ filtered_df' = Normalized(scored)
    /\ steps' = steps \cup {"fit"}
    /\ pc' = "L126"
    /\ UNCHANGED <<config, df, create_plots, invocation, plotting, data_no_proc, features,
                   ending>>

\* lines 126-129
Return ==
    /\ pc = "L126"
    /\ anomalous_devices' = AnomalousDevices(filtered_df)
    /\ outcome' = "returned"
    /\ error' = ""
    /\ history' = Append(history, CallRecord("returned", "", AnomalousDevices(filtered_df)))
    /\ pc' = "done"
    /\ UNCHANGED <<config, df, create_plots, seeded, invocation, steps, plotting, locals>>

\* the caller invokes analyze_df a second time on the table object the first
\* call processed, with the same anomaly_percentage, with or without plots
CallAgain ==
    /\ pc = "done"
    /\ invocation = "first"
    /\ invocation' = "second"
    /\ df' = df
    /\ create_plots' \in BOOLEAN
    /\ pc' = "L26"
    /\ steps' = {}
    /\ plot_queue' = <<>>
    /\ data_no_proc' = <<>>
    /\ filtered_df' = <<>>
    /\ features' = <<>>
    /\ iso_forest' = <<>>
    /\ outcome' = "running"
    /\ error' = ""
    /\ anomalous_devices' = {}
    /\ UNCHANGED <<config, seeded, output_dir, history>>

Next ==
    \/ MakeDirs
    \/ MakeDirsFails
    \/ NoMakeDirs
    \/ Preprocessing
    \/ Aggregation
    \/ PlotDevice
    \/ PlotRupturesFails
    \/ PlotFails
    \/ PlotsDone
    \/ Featurize
    \/ FitRaises
    \/ FitPredict
    \/ Return
    \/ CallAgain

Spec == Init /\ [][Next]_vars

\* =============================================================== claims
InputDevices == {input[i]["device"] : i \in 1..Len(input)}

ScansOf(d) == {input[i]["scan"] : i \in {j \in 1..Len(input) : input[j]["device"] = d}}

GroupRows(d, sc) ==
    {i \in 1..Len(input) : input[i]["device"] = d /\ input[i]["scan"] = sc}

FirstRow(d, sc) == CHOOSE i \in GroupRows(d, sc) : \A j \in GroupRows(d, sc) : i <= j

\* a scan whose rows do not all report the same count
Inconsistent(d, sc) ==
    \E i, j \in GroupRows(d, sc) : input[i]["scan_proc_count"] # input[j]["scan_proc_count"]

SingleScan(d) == Cardinality(ScansOf(d)) = 1

RowsOf(rows, d) == {i \in 1..Len(rows) : rows[i]["device"] = d}

InUnitInterval(c) == 0 < c[1] /\ c[1] < c[2]

Returned(i) == history[i].outcome = "returned"

\* ---- C1
\* C1: the table that lines 107-108 hand to the detector holds exactly one
\* row for every device of the input and none for any other device.
C1_OneRowPerDevice ==
    pc = "L109" =>
        \A d \in Devices :
            Cardinality(RowsOf(filtered_df, d)) = IF d \in InputDevices THEN 1 ELSE 0

\* a table with a single-scan device and a device whose scan reports two
\* different counts has gone through line 107
C1_Witness ==
    /\ pc = "L109"
    /\ \E d \in InputDevices : SingleScan(d) /\ Cardinality(GroupRows(d, 1)) = 1
    /\ \E d \in InputDevices : \E sc \in ScansOf(d) : Inconsistent(d, sc)
    /\ Len(filtered_df) >= 2

\* ---- C2
RECURSIVE SumDiscrepancy(_, _)
SumDiscrepancy(d, scs) ==
    IF scs = {} THEN 0
    ELSE LET sc == CHOOSE x \in scs : TRUE
         IN  (Cardinality(GroupRows(d, sc)) - input[FirstRow(d, sc)]["scan_proc_count"])
             + SumDiscrepancy(d, scs \ {sc})

MeanDiscrepancy(d) == Frac(SumDiscrepancy(d, ScansOf(d)), Cardinality(ScansOf(d)))

\* C2: after lines 36-39 every row of a device carries, as
\* mean_difference_count, the mean over the device's scans of (rows of the
\* scan) - (count reported by the scan's first row), one value per scan.
C2_MeanOverScans ==
    "aggregate" \in steps =>
        \A i \in 1..Len(data_no_proc) :
            data_no_proc[i]["mean_difference_count"] = MeanDiscrepancy(data_no_proc[i]["device"])

\* ---- C3
\* round(n / d), halves to the even neighbour
Round(n, d) ==
    LET q == n \div d
        r == n % d
    IN  IF 2 * r < d THEN q
        ELSE IF 2 * r > d THEN q + 1
        ELSE IF q % 2 = 0 THEN q ELSE q + 1

\* C3: a call with a contamination fraction inside (0,1) on devices that all
\* have two scans or more, not stopped by the plotting, returns a set whose
\* size is within 1 of round(c * number of devices).
C3_ContaminationRespected ==
    ( /\ pc = "done"
      /\ InUnitInterval(anomaly_percentage)
      /\ Cardinality(InputDevices) >= 2
      /\ \A d \in InputDevices : Cardinality(ScansOf(d)) >= 2
      /\ error \notin {"OSError", "PlotError"} )
    => /\ outcome = "returned"
       /\ Abs(Cardinality(anomalous_devices)
              - Round(anomaly_percentage[1] * Cardinality(InputDevices),
                      anomaly_percentage[2])) <= 1

\* ---- C4
Col(name) == Column(filtered_df, name)

\* C4: when lines 109-116 have run, every score_normalized is in [0,1];
\* if the raw scores differ, some row is at 0, some row is at 1 and every row
\* with the lowest raw score is at 1; if they are all equal, every row is at 0.
C4_NormalizedRange ==
    pc = "L126" =>
        LET raw == Col("anomaly_score")
            norm == Col("score_normalized")
            n == Len(filtered_df)
        IN  /\ \A i \in 1..n : ~IsNaN(norm[i]) /\ FracLeq(<<0, 1>>, norm[i])
                                /\ FracLeq(norm[i], <<1, 1>>)
            /\ (\E i, j \in 1..n : raw[i] # raw[j]) =>
                    /\ \E i \in 1..n : norm[i] = <<0, 1>>
                    /\ \E i \in 1..n : norm[i] = <<1, 1>>
                    /\ \A i \in 1..n : (\A j \in 1..n : FracLeq(raw[i], raw[j]))
                                            => norm[i] = <<1, 1>>
            /\ (\A i, j \in 1..n : raw[i] = raw[j]) =>
                    \A i \in 1..n : norm[i] = <<0, 1>>

\* two devices with two scans each were scored differently and normalized
C4_Witness ==
    /\ pc = "L126"
    /\ Len(filtered_df) = 2
    /\ ~HasNaN(features)
    /\ filtered_df[1]["anomaly_score"] # filtered_df[2]["anomaly_score"]

\* ---- C5
\* C5: no row with a missing std_difference_count is among the features given
\* to the detector, and no single-scan device is in the returned set.
C5_SingleScanExcluded ==
    /\ \A i \in 1..Len(features) : ~IsNaN(features[i][2])
    /\ \A d \in anomalous_devices : ~SingleScan(d)

\* ---- C6
\* C6: a call on a table in which fewer than 2 devices have two scans or more
\* never ends by returning (stated for the tables without single-scan
\* devices, where the outcome does not depend on the library version).
C6_TooFewDevicesFails ==
    ( /\ Cardinality({d \in InputDevices : Cardinality(ScansOf(d)) >= 2}) < 2
      /\ \A d \in InputDevices : ~SingleScan(d) )
    => outcome # "returned"


\* ---- C7
\* C7 as stated: with anomaly_percentage outside (0,1) the call does nothing
\* at all: no directory, no preprocessing, no aggregation, no plot, no result.
C7_RejectedBeforeComputation ==
    ~InUnitInterval(anomaly_percentage) =>
        /\ steps = {}
        /\ ~output_dir
        /\ df = input
        /\ outcome # "returned"

\* C7 amended: with anomaly_percentage outside (0,1) the call never returns a
\* set, the detector is built with the value given (no default takes its
\* place) and never fits; the rejection comes from fit at line 110, after the
\* table was preprocessed and aggregated and, with create_plots, after the
\* directory was made and the plotting loop went through every device.
C7_RejectedAtFit ==
    ~InUnitInterval(anomaly_percentage) =>
        /\ outcome # "returned"
        /\ anomalous_devices = {}
        /\ "fit" \notin steps
        /\ iso_forest # <<>> => iso_forest[1].contamination = anomaly_percentage
        /\ error = "InvalidParameterError" =>
            /\ {"preprocess", "aggregate", "featurize"} \subseteq steps
            /\ create_plots => (output_dir /\ "makedirs" \in steps /\ plot_queue = <<>>)
        /\ (pc = "done" /\ error \notin {"OSError", "PlotError"}) => error = "InvalidParameterError"

\* an invalid anomaly_percentage was rejected after the directory was made
\* and the plot of every device saved
C7_Witness ==
    /\ ~InUnitInterval(anomaly_percentage)
    /\ error = "InvalidParameterError"
    /\ output_dir
    /\ {"makedirs", "aggregate"} \subseteq steps
    /\ "except" \notin steps
    /\ Len(filtered_df) >= 2

\* ---- C8
\* C8: two calls with the same records, the same anomaly_percentage and the
\* same create_plots, the second one on the table object the first one
\* processed, that both return, return the same set and the same scored table.
C8_Deterministic ==
    (Len(history) = 2 /\ Returned(1) /\ Returned(2)
        /\ history[1].create_plots = history[2].create_plots)
    => /\ history[1].result = history[2].result
       /\ history[1].scored = history[2].scored

\* both calls returned the same non-empty set, the second on the mutated table
C8_Witness ==
    /\ Len(history) = 2
    /\ Returned(1) /\ Returned(2)
    /\ history[1].create_plots = history[2].create_plots
    /\ history[2].result # {}
    /\ df # input

\* ---- C9
PlottingErrors == {"OSError", "RupturesError", "PlotError"}

\* C9 as stated: no failure of a plotting step ever ends a call.
C9_PlotFailureHarmless == error \notin PlottingErrors

\* C9 amended: a failure of change-point detection never ends a call (the
\* device's plot is skipped); other plotting failures do.  Calls that return
\* return the same set whether or not they plot and whether or not a plot was
\* skipped.
C9_OnlyRupturesCaught ==
    /\ error # "RupturesError"
    /\ (Len(history) = 2 /\ Returned(1) /\ Returned(2)
            /\ history[1].create_plots # history[2].create_plots)
        => history[1].result = history[2].result

\* a call without plots and a call during which change-point detection failed
\* both returned a non-empty set
C9_Witness ==
    /\ Len(history) = 2
    /\ Returned(1) /\ Returned(2)
    /\ ~history[1].create_plots
    /\ history[2].create_plots
    /\ "except" \in steps
    /\ history[2].result # {}

\* ---- C10
\* C10 as stated: when a call has ended, the caller's table is what it was
\* before the call.
C10_InputUnchanged == pc = "done" => df = input

AddedColumns == {"total_proc_count", "difference_count"}

\* C10 amended: when a call has ended, by a return or by an exception, the
\* caller's table has the rows it had, in the same order and with the same
\* values in the original columns; a call that got past lines 31-32 has added
\* the columns total_proc_count and difference_count, and a second call on
\* the same table leaves in them the values the first call put there.
C10_OnlyColumnsAdded ==
    pc = "done" =>
        /\ DropColumns(df, AddedColumns) = input
        /\ \A i \in 1..Len(df) :
            DOMAIN df[i] \in {InputColumns, InputColumns \cup AddedColumns}
        /\ \A i \in 1..Len(df) : "preprocess" \in steps =>
            /\ DOMAIN df[i] = InputColumns \cup AddedColumns
            /\ df[i]["total_proc_count"] = Cardinality(GroupRows(df[i]["device"], df[i]["scan"]))
            /\ df[i]["difference_count"] = df[i]["total_proc_count"] - input[i]["scan_proc_count"]

\* the second call has ended on a table that the calls have changed
C10_Witness ==
    /\ invocation = "second"
    /\ pc = "done"
    /\ "preprocess" \in steps
    /\ df # input
    /\ Len(df) >= 2

====
